---------------------------- MODULE Spec2Model ----------------------------
(***************************************************************************)
(* VariationModel of fontTools.varLib (Lib/fontTools/varLib/__init__.py):  *)
(* construction of a variation model from a list of master locations.      *)
(*                                                                         *)
(* A location is a function from a set of axis tags to coordinates.        *)
(* Coordinates are fixed-point numbers with one decimal digit, held as     *)
(* integers: the doctest's 0.3 is 3 and its 100 is 1000.  Delta weights    *)
(* are exact fractions <<numerator, denominator>>.  List indices are the   *)
(* 0-based indices of the Python code; list position p holds index p-1.    *)
(***************************************************************************)
EXTENDS Integers, Sequences, FiniteSets, TLC

VARIABLES
    pc,               \* where construction stands: "start", "keyed", "sorted", "done", "failed"
    error,            \* the exception that ended construction, "" if none
    argLocations,     \* the locations argument of __init__
    axisOrder,        \* the axisOrder argument of __init__
    locations,        \* the pruned locations (self.locations once sorted)
    axisPoints,       \* keyFunc.axisPoints
    sortedLocations,  \* self.sortedLocations
    mapping,          \* self.mapping: canonical index -> original index
    reverseMapping,   \* self.reverseMapping: original index -> canonical index
    supports,         \* self.supports, by original index
    deltaWeights,     \* self.deltaWeights, by original index
    divisors          \* every divisor a delta-weight division was evaluated with

vars == <<pc, error, argLocations, axisOrder, locations, axisPoints,
          sortedLocations, mapping, reverseMapping, supports, deltaWeights,
          divisors>>

---------------------------------------------------------------------------
(* Axis tags and the inputs construction is run on. *)

Axes == {"wdth", "wght"}

\* Position of a tag in ascending tag order: "wdth" < "wght" as strings.
TagIndex == [a \in Axes |-> IF a = "wdth" THEN 1 ELSE 2]

SortedTags == <<"wdth", "wght">>

EmptyLoc == [a \in {} |-> 0]

\* At most MaxMasters locations are picked from the universe of locations.
MaxMasters == 4

AxisOrders == {<<>>, <<"wght">>}

Loc1(a, v) == [x \in {a} |-> v]

Loc2(w, d) == [x \in Axes |-> IF x = "wght" THEN w ELSE d]

\* The universe: every location with wght in {-2, -1, 1, 2} or absent and wdth
\* in {-1, 1, 2} or absent, in a fixed order that is not the canonical one.
Universe ==
    << Loc2(2, 2), Loc1("wght", 1), Loc2(1, 1), Loc1("wdth", -1), Loc2(-1, 1),
       EmptyLoc, Loc1("wght", 2), Loc2(1, 2), Loc1("wdth", 2), Loc2(2, 1),
       Loc1("wght", -1), Loc2(-1, -1), Loc1("wdth", 1), Loc2(1, -1),
       Loc2(2, -1), Loc2(-1, 2), Loc1("wght", -2), Loc2(-2, 1), Loc2(-2, -1),
       Loc2(-2, 2) >>

\* Locations that carry explicit zero coordinates, or repeat a universe one.
ExtraLocations == [Axes -> {0, 1}]

RECURSIVE IncreasingSeqs(_, _)
\* The strictly increasing sequences of at most k indices, all above lo.
IncreasingSeqs(lo, k) ==
    IF k = 0 THEN {<<>>}
    ELSE {<<>>} \cup UNION { { <<i>> \o s : s \in IncreasingSeqs(i, k - 1) }
                             : i \in (lo + 1)..Len(Universe) }

Reverse(s) == [p \in 1..Len(s) |-> s[Len(s) + 1 - p]]

Pick(idx) == [p \in 1..Len(idx) |-> Universe[idx[p]]]

\* The doctest's locations (lines 23-33), coordinates in tenths.
DocLocations ==
    << Loc1("wght", 1000), Loc1("wght", -1000), Loc1("wght", -1800),
       Loc1("wdth", 3), Loc2(1200, 3), Loc2(1200, 2), EmptyLoc,
       Loc2(1800, 3), Loc1("wght", 1800) >>

\* The location lists construction is run on: at most MaxMasters locations of
\* the universe, in its order or reversed, then possibly one extra location;
\* and the doctest's list.
Inputs ==
    { (IF rev THEN Reverse(Pick(idx)) ELSE Pick(idx)) \o extra :
        idx \in IncreasingSeqs(0, MaxMasters),
        rev \in BOOLEAN,
        extra \in {<<>>} \cup { <<x>> : x \in ExtraLocations } }
    \cup {DocLocations}

---------------------------------------------------------------------------
(* Helpers for Python lists and numbers. *)

At(lst, i) == lst[i + 1]

Indices(lst) == 0..(Len(lst) - 1)

\* list.index(x): the first index holding a value equal to x.
index(lst, x) ==
    CHOOSE i \in Indices(lst) :
        /\ At(lst, i) = x
        /\ \A j \in 0..(i - 1) : At(lst, j) # x

Abs(v) == IF v < 0 THEN -v ELSE v

Max(S) == CHOOSE v \in S : \A w \in S : w <= v

Min(S) == CHOOSE v \in S : \A w \in S : v <= w

---------------------------------------------------------------------------
(* __init__, line 66: drop the zero-valued entries of every location. *)

prune(loc) == [a \in {x \in DOMAIN loc : loc[x] # 0} |-> loc[a]]

pruneAll(locs) == [p \in 1..Len(locs) |-> prune(locs[p])]

---------------------------------------------------------------------------
(* getMasterLocationsSortKeyFunc, lines 77-110. *)

\* baseMasterFound with the assertion of line 78 left out.
baseMasterFoundMutant(locs) == TRUE

\* line 78: assert {} in locations
baseMasterFound(locs) == \E p \in 1..Len(locs) : locs[p] = EmptyLoc

RECURSIVE collectAxisPoints(_, _, _)
\* lines 79-88: the loop over locations from position p on; acc is axisPoints
\* so far.  The result's ok is FALSE when the assertion of line 87 fails.
collectAxisPoints(locs, p, acc) ==
    IF p > Len(locs) THEN [ok |-> TRUE, axisPoints |-> acc]
    ELSE
        LET loc == locs[p] IN
        IF Cardinality(DOMAIN loc) # 1 THEN collectAxisPoints(locs, p + 1, acc)
        ELSE
            LET axis == CHOOSE a \in DOMAIN loc : TRUE
                value == loc[axis]
                have == IF axis \in DOMAIN acc THEN acc[axis] ELSE {0}
            IN  IF value \in have THEN [ok |-> FALSE, axisPoints |-> acc]
                ELSE collectAxisPoints(locs, p + 1,
                        [a \in DOMAIN acc \cup {axis} |->
                            IF a = axis THEN have \cup {value} ELSE acc[a]])

\* line 92
sign(v) == IF v < 0 THEN -1 ELSE IF v > 0 THEN 1 ELSE 0

\* lines 96-97
orderedAxes(loc, order) ==
    SelectSeq(order, LAMBDA a : a \in DOMAIN loc)
    \o SelectSeq(SortedTags,
                 LAMBDA a : a \in DOMAIN loc /\ \A q \in 1..Len(order) : order[q] # a)

\* line 101: axisOrder.index(axis) if axis in axisOrder else 0x10000
orderIndex(axis, order) ==
    IF \E q \in 1..Len(order) : order[q] = axis THEN index(order, axis) ELSE 65536

\* line 95 raises KeyError for an axis that has no entry in axisPoints.
keyRaises(loc, points) == \E a \in DOMAIN loc : a \notin DOMAIN points

\* key with the number of on-point axes not negated.
keyMutant(loc, points, order) ==
    LET axes == orderedAxes(loc, order)
        onPointAxes == {a \in DOMAIN loc : loc[a] \in points[a]}
    IN  << Cardinality(DOMAIN loc),
           Cardinality(onPointAxes),
           [q \in 1..Len(axes) |-> orderIndex(axes[q], order)],
           [q \in 1..Len(axes) |-> TagIndex[axes[q]]],
           [q \in 1..Len(axes) |-> sign(loc[axes[q]])],
           [q \in 1..Len(axes) |-> Abs(loc[axes[q]])] >>

\* lines 93-105; tags are held by their position in tag order.
key(loc, points, order) ==
    LET axes == orderedAxes(loc, order)
        onPointAxes == {a \in DOMAIN loc : loc[a] \in points[a]}
    IN  << Cardinality(DOMAIN loc),
           -Cardinality(onPointAxes),
           [q \in 1..Len(axes) |-> orderIndex(axes[q], order)],
           [q \in 1..Len(axes) |-> TagIndex[axes[q]]],
           [q \in 1..Len(axes) |-> sign(loc[axes[q]])],
           [q \in 1..Len(axes) |-> Abs(loc[axes[q]])] >>

---------------------------------------------------------------------------
(* sorted(locations, key=keyFunc), line 70: Python's comparison of key     *)
(* tuples and its stable sort.                                             *)

\* Python's < on tuples of numbers: the first differing item decides, and a
\* proper prefix is smaller.
tupleLess(s, t) ==
    \E q \in 1..Len(t) :
        /\ q <= Len(s) + 1
        /\ \A r \in 1..(q - 1) : s[r] = t[r]
        /\ (q = Len(s) + 1 \/ s[q] < t[q])

keyLess(k1, k2) ==
    \E c \in 1..6 :
        /\ \A b \in 1..(c - 1) : k1[b] = k2[b]
        /\ IF c <= 2 THEN k1[c] < k2[c] ELSE tupleLess(k1[c], k2[c])

RECURSIVE insertSorted(_, _, _)
\* Insert position x into the sorted list of positions out, after every
\* position whose key is not greater.
insertSorted(out, x, keys) ==
    IF out = <<>> THEN <<x>>
    ELSE IF keyLess(keys[x], keys[Head(out)])
         THEN <<x>> \o out
         ELSE <<Head(out)>> \o insertSorted(Tail(out), x, keys)

RECURSIVE sortedPositions(_, _)
\* The positions 1..n in stable ascending order of their keys.
sortedPositions(n, keys) ==
    IF n = 0 THEN <<>> ELSE insertSorted(sortedPositions(n - 1, keys), n, keys)

\* sorted() calls the key function once per item and sorts stably.
sorted(locs, points, order) ==
    CHOOSE srt \in
        UNION { { [r \in 1..Len(locs) |-> locs[perm[r]]] :
                    perm \in {sortedPositions(Len(locs), keys)} } :
                keys \in {[p \in 1..Len(locs) |-> key(locs[p], points, order)]} } :
        TRUE

---------------------------------------------------------------------------
(* lowerBound and upperBound, lines 112-123. *)

lowerBound(value, lst) ==
    IF \E v \in lst : v < value THEN Max({v \in lst : v < value}) ELSE value

upperBound(value, lst) ==
    IF \E v \in lst : v > value THEN Min({v \in lst : v > value}) ELSE value

---------------------------------------------------------------------------
(* _computeMasterSupports, lines 125-162: the support box of a master.  A  *)
(* box maps an axis to <<lower, peak, upper>>.                             *)

\* lines 130-137: the box the axis points give.
initialBox(loc, points) ==
    [a \in DOMAIN loc \cap DOMAIN points |->
        <<lowerBound(loc[a], points[a]), loc[a], upperBound(loc[a], points[a])>>]

\* lines 146-150: m lies strictly inside the box on every axis of both.
relevant(m, box) ==
    \A a \in DOMAIN box : a \in DOMAIN m => (box[a][1] < m[a] /\ m[a] < box[a][3])

\* splitAxis that leaves the box as it is.
splitAxisMutant(entry, val) == entry

\* lines 156-161
splitAxis(entry, val) ==
    IF val < entry[2] THEN <<val, entry[2], entry[3]>>
    ELSE IF entry[2] < val THEN <<entry[1], entry[2], val>>
    ELSE entry

\* lines 154-161, for a master m all of whose axes are in the box.
splitBox(box, m) ==
    [a \in DOMAIN box |-> IF a \in DOMAIN m THEN splitAxis(box[a], m[a]) ELSE box[a]]

\* lines 141-152: m takes part in the split of the box of loc.
participates(m, loc, box) == DOMAIN m \subseteq DOMAIN loc /\ relevant(m, box)

RECURSIVE walkPrevious(_, _, _, _)
\* lines 141-161: the walk over the masters j..i-1 before master i; the
\* result's ok is FALSE when the assertion of line 155 fails.
walkPrevious(box, locs, i, j) ==
    IF j >= i THEN [ok |-> TRUE, box |-> box]
    ELSE
        LET m == At(locs, j) IN
        IF ~participates(m, At(locs, i), box) THEN walkPrevious(box, locs, i, j + 1)
        ELSE IF ~(DOMAIN m \subseteq DOMAIN box) THEN [ok |-> FALSE, box |-> box]
        ELSE walkPrevious(splitBox(box, m), locs, i, j + 1)

\* lines 129-162: the boxes of all masters, in canonical order.
masterBoxes(locs, points) ==
    [p \in 1..Len(locs) |->
        walkPrevious(initialBox(locs[p], points), locs, p - 1, 0)]

---------------------------------------------------------------------------
(* _computeMasterSupports, lines 164-186: the delta weights.  A weight is  *)
(* the fraction <<n, d>> in lowest terms with d > 0.                       *)

Zero == <<0, 1>>

One == <<1, 1>>

RECURSIVE gcd(_, _)
gcd(a, b) == IF b = 0 THEN a ELSE gcd(b, a % b)

frac(n, d) ==
    IF d = 0 THEN <<n, d>>
    ELSE LET g == gcd(Abs(n), Abs(d)) IN
         IF d < 0 THEN <<(-n) \div g, (-d) \div g>> ELSE <<n \div g, d \div g>>

mul(f, g) == frac(f[1] * g[1], f[2] * g[2])

neg(f) == <<-f[1], f[2]>>

\* outOfSupport that tests the upper bound only.
outOfSupportMutant(v, lower, upper) == upper <= v

\* line 177
outOfSupport(v, lower, upper) == v <= lower \/ upper <= v

\* lines 174-183: what one axis of the support multiplies the scalar by.
axisFactor(v, entry) ==
    IF v = entry[2] THEN One
    ELSE IF outOfSupport(v, entry[1], entry[3]) THEN Zero
    ELSE IF v < entry[2] THEN <<v - entry[2], entry[1] - entry[2]>>
    ELSE <<v - entry[2], entry[3] - entry[2]>>

RECURSIVE scalarOver(_, _, _, _)
\* lines 169-183 over the axes of m listed in tags.
scalarOver(tags, loc, m, support) ==
    IF tags = <<>> THEN One
    ELSE LET axis == Head(tags) IN
         IF axis \notin DOMAIN loc THEN Zero
         ELSE LET f == axisFactor(loc[axis], support[axis]) IN
              IF f[1] = 0 THEN Zero
              ELSE mul(f, scalarOver(Tail(tags), loc, m, support))

\* lines 167-183: the scalar of master m, with its support, at loc.
scalar(loc, m, support) ==
    scalarOver(SelectSeq(SortedTags, LAMBDA a : a \in DOMAIN m), loc, m, support)

\* The divisors of lines 181 and 183 that some order of m.items() evaluates:
\* an axis that comes first is divided by unless lines 171-179 skip it.
divisorsAt(loc, m, support) ==
    { IF loc[a] < support[a][2] THEN support[a][1] - support[a][2]
                                ELSE support[a][3] - support[a][2] :
        a \in { x \in DOMAIN m \cap DOMAIN loc \cap DOMAIN support :
                  /\ loc[x] # support[x][2]
                  /\ ~outOfSupport(loc[x], support[x][1], support[x][3]) } }

\* deltaWeightRow without the append of line 185.
deltaWeightRowMutant(locs, boxes, i) ==
    [p \in 1..i |-> neg(scalar(At(locs, i), locs[p], boxes[p]))]

\* lines 164-185: the weights of master i for masters 0..i-1, then its own.
deltaWeightRow(locs, boxes, i) ==
    [p \in 1..(i + 1) |->
        IF p = i + 1 THEN One ELSE neg(scalar(At(locs, i), locs[p], boxes[p]))]

---------------------------------------------------------------------------
(* _computeMasterSupports, lines 188-192: back to the original order. *)

\* reindexSupports through self.mapping instead of the list it is given.
reindexSupportsMutant(boxes, mapped) == [p \in 1..Len(mapped) |-> At(boxes, mapping[p])]

\* line 189
reindexSupports(boxes, mapped) == [p \in 1..Len(mapped) |-> At(boxes, mapped[p])]

\* A dict comprehension keeps, for a key computed twice, the last value.
lastWith(S, k, keyOf) == Max({i \in S : At(keyOf, i) = k})

\* line 191, inner comprehension: the non-zero weights of one row.
rowDict(row, mapped) ==
    LET kept == {i \in Indices(row) : At(row, i)[1] # 0} IN
    [k \in {At(mapped, i) : i \in kept} |-> At(row, lastWith(kept, k, mapped))]

\* lines 191-192
reindexDeltaWeights(rows, mapped) ==
    [k \in {At(mapped, i) : i \in Indices(rows)} |->
        rowDict(At(rows, lastWith(Indices(rows), k, mapped)), mapped)]

---------------------------------------------------------------------------
Unset == <<>>

Init ==
    /\ pc = "start"
    /\ error = ""
    /\ argLocations \in Inputs
    /\ axisOrder \in AxisOrders
    /\ locations = Unset
    /\ axisPoints = Unset
    /\ sortedLocations = Unset
    /\ mapping = Unset
    /\ reverseMapping = Unset
    /\ supports = Unset
    /\ deltaWeights = Unset
    /\ divisors = {}

\* __init__ lines 66-67 with getMasterLocationsSortKeyFunc lines 77-110.
GetMasterLocationsSortKeyFunc ==
    /\ pc = "start"
    /\ LET locs == pruneAll(argLocations)
           got == collectAxisPoints(locs, 1, EmptyLoc)
       IN  /\ locations' = locs
           /\ IF ~baseMasterFound(locs)
              THEN /\ pc' = "failed"
                   /\ error' = "AssertionError: Base master not found."
                   /\ UNCHANGED axisPoints
              ELSE IF ~got.ok
              THEN /\ pc' = "failed"
                   /\ error' = "AssertionError"
                   /\ UNCHANGED axisPoints
              ELSE /\ pc' = "keyed"
                   /\ axisPoints' = got.axisPoints
                   /\ UNCHANGED error
    /\ UNCHANGED <<argLocations, axisOrder, sortedLocations, mapping,
                   reverseMapping, supports, deltaWeights, divisors>>

\* __init__ lines 68-72.
SortLocations ==
    /\ pc = "keyed"
    /\ IF \E p \in 1..Len(locations) : keyRaises(locations[p], axisPoints)
       THEN /\ pc' = "failed"
            /\ error' = "KeyError"
            /\ UNCHANGED <<sortedLocations, mapping, reverseMapping>>
       ELSE \E srt \in {sorted(locations, axisPoints, axisOrder)} :
            /\ pc' = "sorted"
            /\ sortedLocations' = srt
            /\ mapping' = [p \in 1..Len(srt) |-> index(locations, srt[p])]
            /\ reverseMapping' = [p \in 1..Len(locations) |-> index(srt, locations[p])]
            /\ UNCHANGED error
    /\ UNCHANGED <<argLocations, axisOrder, locations, axisPoints, supports,
                   deltaWeights, divisors>>

\* __init__ line 74 with _computeMasterSupports lines 125-192.
ComputeMasterSupports ==
    /\ pc = "sorted"
    /\ \E walked \in {masterBoxes(sortedLocations, axisPoints)} :
       \E boxes \in {[p \in 1..Len(walked) |-> walked[p].box]} :
       \E used \in {UNION { IF q < p
                              THEN divisorsAt(sortedLocations[p], sortedLocations[q], boxes[q])
                              ELSE {} :
                              p \in 1..Len(boxes), q \in 1..Len(boxes) }} :
           IF \E p \in 1..Len(walked) : ~walked[p].ok
           THEN /\ pc' = "failed"
                /\ error' = "AssertionError"
                /\ UNCHANGED <<supports, deltaWeights, divisors>>
           ELSE IF \E p \in 1..Len(boxes) : \E q \in 1..(p - 1) :
                      ~(DOMAIN sortedLocations[q] \subseteq DOMAIN boxes[q])
           THEN /\ pc' = "failed"
                /\ error' = "KeyError"
                /\ UNCHANGED <<supports, deltaWeights, divisors>>
           ELSE IF 0 \in used
           THEN /\ pc' = "failed"
                /\ error' = "ZeroDivisionError"
                /\ divisors' = used
                /\ UNCHANGED <<supports, deltaWeights>>
           ELSE \E rows \in {[p \in 1..Len(boxes) |->
                                  deltaWeightRow(sortedLocations, boxes, p - 1)]} :
                /\ pc' = "done"
                /\ supports' = reindexSupports(boxes, reverseMapping)
                /\ deltaWeights' = reindexDeltaWeights(rows, mapping)
                /\ divisors' = used
                /\ UNCHANGED error
    /\ UNCHANGED <<argLocations, axisOrder, locations, axisPoints,
                   sortedLocations, mapping, reverseMapping>>

Next == GetMasterLocationsSortKeyFunc \/ SortLocations \/ ComputeMasterSupports

Spec == Init /\ [][Next]_vars
---------------------------------------------------------------------------
(* What the properties below speak of. *)

Terminal == pc \in {"done", "failed"}

\* The input after zero-valued entries are dropped.
PrunedInput == pruneAll(argLocations)

Count(lst, x) == Cardinality({p \in 1..Len(lst) : lst[p] = x})

HasDuplicates(lst) == \E p, q \in 1..Len(lst) : p < q /\ lst[p] = lst[q]

\* The values on an axis of the one-axis masters of the input, with 0.
OnAxisValues(a) ==
    {0} \cup { PrunedInput[p][a] : p \in { q \in 1..Len(PrunedInput) : DOMAIN PrunedInput[q] = {a} } }

Rank(loc) == Cardinality(DOMAIN loc)

OnPointCount(loc) == Cardinality({a \in DOMAIN loc : loc[a] \in OnAxisValues(a)})

InAxisOrder(a) == \E q \in 1..Len(axisOrder) : axisOrder[q] = a

\* Axis a goes before axis b: named axes first, in axisOrder's order, the
\* others in ascending tag order.
AxisBefore(a, b) ==
    \/ InAxisOrder(a) /\ ~InAxisOrder(b)
    \/ /\ InAxisOrder(a) /\ InAxisOrder(b)
       /\ \E q \in 1..Len(axisOrder) :
              axisOrder[q] = a /\ \A r \in 1..q : axisOrder[r] # b
    \/ ~InAxisOrder(a) /\ ~InAxisOrder(b) /\ TagIndex[a] < TagIndex[b]

\* The axes of a location, in that order.
AxesInOrder(loc) ==
    CHOOSE s \in [1..Rank(loc) -> DOMAIN loc] :
        \A q, r \in 1..Rank(loc) : q < r => AxisBefore(s[q], s[r])

\* Location x goes strictly before location y of the same rank in the
\* canonical order, by the axes, the signs or the absolute values.
FirstDifference(x, y, before(_, _, _)) ==
    LET sx == AxesInOrder(x)
        sy == AxesInOrder(y)
    IN  \E q \in 1..Rank(x) :
            /\ \A r \in 1..(q - 1) : ~before(r, sx, sy) /\ ~before(r, sy, sx)
            /\ before(q, sx, sy)

AxesBefore(x, y) == FirstDifference(x, y, LAMBDA q, s, t : AxisBefore(s[q], t[q]))

SignsBefore(x, y) ==
    LET sx == AxesInOrder(x) IN
    \E q \in 1..Rank(x) :
        /\ \A r \in 1..(q - 1) : (x[sx[r]] < 0) = (y[sx[r]] < 0)
        /\ x[sx[q]] < 0 /\ y[sx[q]] > 0

AbsBefore(x, y) ==
    LET sx == AxesInOrder(x) IN
    \E q \in 1..Rank(x) :
        /\ \A r \in 1..(q - 1) : Abs(x[sx[r]]) = Abs(y[sx[r]])
        /\ Abs(x[sx[q]]) < Abs(y[sx[q]])

SameSigns(x, y) == \A a \in DOMAIN x : (x[a] < 0) = (y[a] < 0)

CanonicalBefore(x, y) ==
    \/ Rank(x) < Rank(y)
    \/ /\ Rank(x) = Rank(y)
       /\ \/ OnPointCount(x) > OnPointCount(y)
          \/ /\ OnPointCount(x) = OnPointCount(y)
             /\ \/ AxesBefore(x, y)
                \/ /\ DOMAIN x = DOMAIN y
                   /\ \/ SignsBefore(x, y)
                      \/ SameSigns(x, y) /\ AbsBefore(x, y)

\* The doctest's sortedLocations (lines 35-45), coordinates in tenths.
DocSortedLocations ==
    << EmptyLoc, Loc1("wght", -1000), Loc1("wght", -1800), Loc1("wght", 1000),
       Loc1("wght", 1800), Loc1("wdth", 3), Loc2(1800, 3), Loc2(1200, 3),
       Loc2(1200, 2) >>

\* The box of the master at canonical index c (0-based).
BoxAt(c) == At(supports, At(mapping, c))

---------------------------------------------------------------------------
\* C1: the sortedLocations of a constructed model are a permutation of the
\* pruned input in canonical order: lower rank first (the base location at
\* index 0), then more on-axis-point axes first, then axes named in axisOrder
\* before the others, then negative before positive, then smaller absolute
\* value first; the doctest's input with axisOrder ['wght'] gives the
\* doctest's order.
C1_CanonicalOrder ==
    pc = "done" =>
        /\ Len(sortedLocations) = Len(PrunedInput)
        /\ \A p \in 1..Len(PrunedInput) :
               Count(sortedLocations, PrunedInput[p]) = Count(PrunedInput, PrunedInput[p])
        /\ sortedLocations[1] = EmptyLoc
        /\ \A p \in 1..(Len(sortedLocations) - 1) :
               \/ sortedLocations[p] = sortedLocations[p + 1]
               \/ CanonicalBefore(sortedLocations[p], sortedLocations[p + 1])
        /\ (argLocations = DocLocations /\ axisOrder = <<"wght">>
                => sortedLocations = DocSortedLocations)

\* C1 witness: the doctest's input was sorted, and not into its own order.
C1_Witness ==
    /\ pc = "done"
    /\ argLocations = DocLocations
    /\ axisOrder = <<"wght">>
    /\ sortedLocations # locations

\* C2: in a constructed model mapping and reverseMapping are permutations of
\* 0..n-1 and inverse to each other.
C2_MutualInverses ==
    pc = "done" =>
        /\ Len(mapping) = Len(reverseMapping)
        /\ \A i \in Indices(mapping) :
               /\ At(mapping, i) \in Indices(mapping)
               /\ At(reverseMapping, i) \in Indices(mapping)
               /\ At(mapping, At(reverseMapping, i)) = i
               /\ At(reverseMapping, At(mapping, i)) = i

\* C3: supports[k] is the box of locations[k]: one entry per non-zero axis
\* of locations[k], its peak the coordinate of locations[k], and
\* lower <= peak <= upper.
C3_SupportIsBoxOfLocation ==
    pc = "done" =>
        /\ Len(supports) = Len(locations)
        /\ \A k \in Indices(locations) :
               /\ DOMAIN At(supports, k) = DOMAIN At(locations, k)
               /\ \A a \in DOMAIN At(supports, k) \cap DOMAIN At(locations, k) :
                      /\ At(supports, k)[a][2] = At(locations, k)[a]
                      /\ At(supports, k)[a][1] <= At(supports, k)[a][2]
                      /\ At(supports, k)[a][2] <= At(supports, k)[a][3]

\* C3 witness: a two-axis master that the sort moved has a box open on
\* both sides of its peak, and the base, not first in the input, has the
\* empty box.
C3_Witness ==
    /\ pc = "done"
    /\ \E k \in Indices(locations) :
           /\ At(mapping, k) # At(reverseMapping, k)
           /\ DOMAIN At(locations, k) = Axes
           /\ \E a \in Axes : At(supports, k)[a][1] < At(supports, k)[a][2]
                              /\ At(supports, k)[a][2] < At(supports, k)[a][3]
    /\ locations[1] # EmptyLoc
    /\ At(supports, index(locations, EmptyLoc)) = EmptyLoc

\* C4 as stated: a delta-weight mapping holds only non-zero weights of other
\* masters, never the master's own weight, and the base's mapping is empty.
C4_SelfWeightImplicit ==
    pc = "done" =>
        /\ \A k \in DOMAIN deltaWeights :
               /\ k \notin DOMAIN deltaWeights[k]
               /\ \A j \in DOMAIN deltaWeights[k] : deltaWeights[k][j][1] # 0
        /\ DOMAIN deltaWeights[index(locations, EmptyLoc)] = {}

\* C4 amended: every delta-weight mapping holds the master's own weight 1
\* under its own index, every weight it holds is non-zero, and the base's
\* mapping is exactly its own weight 1.
C4_SelfWeightExplicit ==
    pc = "done" =>
        /\ \A k \in DOMAIN deltaWeights :
               /\ k \in DOMAIN deltaWeights[k]
               /\ deltaWeights[k][k] = One
               /\ \A j \in DOMAIN deltaWeights[k] : deltaWeights[k][j][1] # 0
        /\ index(locations, EmptyLoc) \in DOMAIN deltaWeights
        /\ DOMAIN deltaWeights[index(locations, EmptyLoc)] = {index(locations, EmptyLoc)}

\* C4 witness: a master has its own weight, weights of some but not all
\* other masters, and a weight that is a proper fraction.
C4_Witness ==
    /\ pc = "done"
    /\ \E k \in DOMAIN deltaWeights :
           /\ Cardinality(DOMAIN deltaWeights[k]) >= 3
           /\ Cardinality(DOMAIN deltaWeights[k]) < Len(locations)
           /\ deltaWeights[k][k] = One
           /\ \E j \in DOMAIN deltaWeights[k] : deltaWeights[k][j][2] # 1

\* C5: when no location of the input is empty once zero-valued entries are
\* dropped, construction fails with the base-master assertion: it goes no
\* further, sets nothing of the model and adds no empty location.
C5_MissingBaseFails ==
    (\A p \in 1..Len(PrunedInput) : PrunedInput[p] # EmptyLoc) =>
        /\ pc \in {"start", "failed"}
        /\ pc = "failed" =>
               /\ error = "AssertionError: Base master not found."
               /\ \A p \in 1..Len(locations) : locations[p] # EmptyLoc
        /\ sortedLocations = Unset /\ mapping = Unset /\ reverseMapping = Unset
        /\ supports = Unset /\ deltaWeights = Unset

\* C5 witness: construction failed on three or more locations, none empty
\* after pruning although one has a zero-valued entry.
C5_Witness ==
    /\ pc = "failed"
    /\ error = "AssertionError: Base master not found."
    /\ Len(argLocations) >= 3
    /\ \E p \in 1..Len(argLocations) : \E a \in DOMAIN argLocations[p] :
           argLocations[p][a] = 0
    /\ \A p \in 1..Len(PrunedInput) : PrunedInput[p] # EmptyLoc

\* C6: when two locations of the input are equal once zero-valued entries
\* are dropped, construction fails: it ends in an error and returns no model
\* (any error raised is counted as the failure).
C6_DuplicatesFail ==
    (Terminal /\ HasDuplicates(PrunedInput)) => pc = "failed"

\* C7: on an input with the empty location exactly once and no duplicates
\* construction completes, and every axis of a location has an entry in the
\* location's support box.
C7_TotalOnValidInput ==
    (Terminal /\ Count(PrunedInput, EmptyLoc) = 1 /\ ~HasDuplicates(PrunedInput)) =>
        /\ pc = "done"
        /\ \A k \in Indices(locations) :
               DOMAIN At(locations, k) \subseteq DOMAIN At(supports, k)

\* C8: for every master i and every master m before it in canonical order
\* whose axes are axes of i and which differs from i on one of its axes, m
\* is not strictly inside the final box of i on some axis of m.
C8_NoEarlierMasterInside ==
    pc = "done" =>
        \A i \in Indices(sortedLocations) : \A j \in 0..(i - 1) :
            LET loc == At(sortedLocations, i)
                m == At(sortedLocations, j)
            IN  (/\ DOMAIN m \subseteq DOMAIN loc
                 /\ \E a \in DOMAIN m : m[a] # loc[a])
                => \E a \in DOMAIN m :
                       ~(BoxAt(i)[a][1] < m[a] /\ m[a] < BoxAt(i)[a][3])

\* A master m before i lay strictly inside the box the axis points give i.
\* C8 witness: a master m before i lay strictly inside the box the axis
\* points give i, and the box of i now ends at m.
C8_Witness ==
    /\ pc = "done"
    /\ \E i \in Indices(sortedLocations) : \E j \in 0..(i - 1) :
           LET loc == At(sortedLocations, i)
               m == At(sortedLocations, j)
           IN  /\ DOMAIN m = Axes /\ DOMAIN loc = Axes
               /\ \A a \in Axes :
                      /\ lowerBound(loc[a], axisPoints[a]) < m[a]
                      /\ m[a] < upperBound(loc[a], axisPoints[a])
               /\ \E a \in Axes : BoxAt(i)[a][1] = m[a] \/ BoxAt(i)[a][3] = m[a]

\* C9: deltaWeights[i] has an entry for another master j exactly when j is
\* before i in canonical order, the axes of j are axes of i, and on each
\* axis of j the coordinate of i is the peak of j's box or strictly between
\* its bounds.
C9_WeightEntries ==
    pc = "done" =>
        \A i, j \in Indices(locations) :
            i # j =>
                ((i \in DOMAIN deltaWeights /\ j \in DOMAIN deltaWeights[i])
                 <=> (/\ At(reverseMapping, j) < At(reverseMapping, i)
                      /\ DOMAIN At(locations, j) \subseteq DOMAIN At(locations, i)
                      /\ \A a \in DOMAIN At(locations, j) :
                             LET v == At(locations, i)[a]
                                 box == At(supports, j)[a]
                             IN  v = box[2] \/ (box[1] < v /\ v < box[3])))

\* C10: no delta-weight division is by zero.
C10_DivisorNonZero == 0 \notin divisors /\ error # "ZeroDivisionError"

\* Divisions were made against a box that ends at its peak, below and above.
\* C10 witness: divisions were made against a box whose lower bound is its
\* peak and against a box whose upper bound is its peak.
C10_Witness ==
    /\ pc = "done"
    /\ \A side \in {1, 3} :
           \E i \in Indices(sortedLocations) : \E j \in 0..(i - 1) :
               \E a \in DOMAIN At(sortedLocations, j) \cap DOMAIN At(sortedLocations, i) :
                   LET v == At(sortedLocations, i)[a]
                       box == BoxAt(j)[a]
                   IN  /\ box[side] = box[2]
                       /\ v # box[2]
                       /\ box[1] < v /\ v < box[3]
                       /\ DOMAIN At(sortedLocations, j) = {a}
===========================================================================
